---- MODULE Spec2Model ----
(***************************************************************************)
(* Model of dissect/target/plugins/os/unix/linux/recentlyused.py:          *)
(* parse_ts, parse_recently_used_xbel (a generator) and                    *)
(* RecentlyUsedPlugin.recently_used (a generator chaining one              *)
(* parse_recently_used_xbel per file of users_files).                      *)
(*                                                                         *)
(* Python's None is the empty tuple <<>> and a present value v is <<v>>,   *)
(* so that every optional value is a tuple.  A raw timestamp is the        *)
(* sequence of its characters.                                             *)
(***************************************************************************)
EXTENDS Naturals, Sequences, FiniteSets, TLC

VARIABLES
  users_files,  \* RecentlyUsedPlugin.users_files: <<[user, path, content]>>
  status,       \* the caller's view of the recently_used generator
  fileIdx,      \* position of "for user, xbel_file in self.users_files"
  pc,           \* position inside parse_recently_used_xbel for the current file
  et,           \* the parsed tree of the current file (sequence of nodes)
  bks,          \* bookmark elements et.iter("bookmark") has still to deliver
  cur,          \* the current primary record (None before the first)
  b,            \* the current bookmark element (node index, 0 before the first)
  pending,      \* icon / application elements still to be yielded for b
  out,          \* the records the caller has received, in order
  log,          \* the records handed to the module logger, in order
  fh,           \* indices of the files whose handle is open
  exc,          \* the exception that left the generator ("" if none)
  emitted,      \* history: for each record of out, the element it was built from
  requests,     \* history: how many times the caller asked for a record
  ts_pc,        \* parse_ts called on its own: "call" or "done"
  ts_in,        \* parse_ts called on its own: the argument
  ts_out        \* parse_ts called on its own: the result

vars == <<users_files, status, fileIdx, pc, et, bks, cur, b, pending, out, log,
          fh, exc, emitted, requests, ts_pc, ts_in, ts_out>>

None == <<>>
Some(v) == <<v>>

RECURSIVE Concat(_)
Concat(ss) == IF ss = <<>> THEN <<>> ELSE Head(ss) \o Concat(Tail(ss))

(***************************************************************************)
(* parse_ts: datetime.strptime(ts, "%Y-%m-%dT%H:%M:%S.%fZ").               *)
(* strptime compiles the format to the regular expression                  *)
(*   (\d\d\d\d)-(1[0-2]|0[1-9]|[1-9])-(3[0-1]|[1-2]\d|0[1-9]|[1-9]| [1-9]) *)
(*   T(2[0-3]|[0-1]\d|\d):([0-5]\d|\d):(6[0-1]|[0-5]\d|\d)\.([0-9]{1,6})Z  *)
(* matched from the start of the string ignoring case, refuses a string    *)
(* with text after the match, and builds the datetime from the groups,     *)
(* which refuses a date or a time that does not exist.  Every refusal is   *)
(* a ValueError.                                                           *)
(***************************************************************************)
DigitValues ==
  "0" :> 0 @@ "1" :> 1 @@ "2" :> 2 @@ "3" :> 3 @@ "4" :> 4 @@
  "5" :> 5 @@ "6" :> 6 @@ "7" :> 7 @@ "8" :> 8 @@ "9" :> 9

IsDigit(c) == c \in DOMAIN DigitValues

DigitVal(c) == DigitValues[c]

RECURSIVE ToInt(_)
ToInt(w) == IF w = <<>> THEN 0
            ELSE 10 * ToInt(SubSeq(w, 1, Len(w) - 1)) + DigitVal(w[Len(w)])

AllDigits(w) == \A k \in 1..Len(w) : IsDigit(w[k])

In(c, lo, hi) == IsDigit(c) /\ DigitVal(c) >= lo /\ DigitVal(c) <= hi

\* The alternatives of each directive's group, as strptime's TimeRE has them.
DirectiveMatches(d, w) ==
  CASE d = "Y" -> Len(w) = 4 /\ AllDigits(w)
    [] d = "m" -> \/ Len(w) = 2 /\ w[1] = "1" /\ In(w[2], 0, 2)
                  \/ Len(w) = 2 /\ w[1] = "0" /\ In(w[2], 1, 9)
                  \/ Len(w) = 1 /\ In(w[1], 1, 9)
    [] d = "d" -> \/ Len(w) = 2 /\ w[1] = "3" /\ In(w[2], 0, 1)
                  \/ Len(w) = 2 /\ In(w[1], 1, 2) /\ IsDigit(w[2])
                  \/ Len(w) = 2 /\ w[1] = "0" /\ In(w[2], 1, 9)
                  \/ Len(w) = 1 /\ In(w[1], 1, 9)
                  \/ Len(w) = 2 /\ w[1] = " " /\ In(w[2], 1, 9)
    [] d = "H" -> \/ Len(w) = 2 /\ w[1] = "2" /\ In(w[2], 0, 3)
                  \/ Len(w) = 2 /\ In(w[1], 0, 1) /\ IsDigit(w[2])
                  \/ Len(w) = 1 /\ IsDigit(w[1])
    [] d = "M" -> \/ Len(w) = 2 /\ In(w[1], 0, 5) /\ IsDigit(w[2])
                  \/ Len(w) = 1 /\ IsDigit(w[1])
    [] d = "S" -> \/ Len(w) = 2 /\ w[1] = "6" /\ In(w[2], 0, 1)
                  \/ Len(w) = 2 /\ In(w[1], 0, 5) /\ IsDigit(w[2])
                  \/ Len(w) = 1 /\ IsDigit(w[1])
    [] d = "f" -> Len(w) >= 1 /\ Len(w) <= 6 /\ AllDigits(w)

\* A strptime whose %f takes exactly six digits.
DirectiveWidths_six(d) == IF d = "Y" THEN {4} ELSE IF d = "f" THEN {6} ELSE {1, 2}

\* The widths a directive's group can take.
DirectiveWidths(d) == IF d = "Y" THEN {4} ELSE IF d = "f" THEN 1..6 ELSE {1, 2}

\* The format, piece by piece: a directive, or a literal with the characters
\* that match it (re.IGNORECASE: a letter matches in either case).
FormatPieces ==
  << [dir |-> "Y", lit |-> {}],  [dir |-> "", lit |-> {"-"}],
     [dir |-> "m", lit |-> {}],  [dir |-> "", lit |-> {"-"}],
     [dir |-> "d", lit |-> {}],  [dir |-> "", lit |-> {"T", "t"}],
     [dir |-> "H", lit |-> {}],  [dir |-> "", lit |-> {":"}],
     [dir |-> "M", lit |-> {}],  [dir |-> "", lit |-> {":"}],
     [dir |-> "S", lit |-> {}],  [dir |-> "", lit |-> {"."}],
     [dir |-> "f", lit |-> {}],  [dir |-> "", lit |-> {"Z", "z"}] >>

\* One piece of the expression applied to the partial matches m (each the next
\* position and the groups so far) of string s.
MatchPiece(s, m, p) ==
  IF p.dir = ""
  THEN {[pos |-> x.pos + 1, groups |-> x.groups] :
          x \in {y \in m : y.pos <= Len(s) /\ s[y.pos] \in p.lit}}
  ELSE UNION {{[pos |-> x.pos + n, groups |-> Append(x.groups, SubSeq(s, x.pos, x.pos + n - 1))] :
                 n \in {k \in DirectiveWidths(p.dir) :
                          /\ x.pos + k - 1 <= Len(s)
                          /\ DirectiveMatches(p.dir, SubSeq(s, x.pos, x.pos + k - 1))}} :
              x \in m}

RECURSIVE MatchFrom(_, _, _)
MatchFrom(s, m, k) ==
  IF k > Len(FormatPieces) THEN m
  ELSE MatchFrom(s, MatchPiece(s, m, FormatPieces[k]), k + 1)

\* format_regex.match(data_string): the matches of the whole expression.
RegexMatch(s) == MatchFrom(s, {[pos |-> 1, groups |-> <<>>]}, 1)

IsLeap(y) == (y % 4 = 0) /\ ((y % 100 # 0) \/ (y % 400 = 0))

DaysInMonth(y, m) ==
  IF m = 2 THEN (IF IsLeap(y) THEN 29 ELSE 28)
  ELSE IF m \in {4, 6, 9, 11} THEN 30 ELSE 31

\* s += "0" * (6 - len(s)); fraction = int(s)
RECURSIVE PadMicro(_)
PadMicro(w) == IF Len(w) >= 6 THEN w ELSE PadMicro(Append(w, "0"))

\* The digits of a group: the day's group may start with a space (int(" 2") = 2).
GroupInt(w) == ToInt(SelectSeq(w, IsDigit))

ValueError == [err |-> "ValueError", value |-> None]

\* datetime_datetime(year, month, day, hour, minute, second, microsecond), after
\* datetime_date(year, month, day).toordinal(): both refuse with ValueError.
MakeDatetime(yr, mo, dy, hh, mi, ss, us) ==
  IF yr < 1 \/ dy > DaysInMonth(yr, mo) THEN ValueError   \* year / day out of range
  ELSE IF ss > 59 THEN ValueError                         \* second must be in 0..59
  ELSE [err |-> "", value |-> Some(<<yr, mo, dy, hh, mi, ss, us>>)]

\* The match x of a string of length n, converted.
ConvertMatch(x, n) ==
  IF x.pos # n + 1 THEN ValueError                        \* unconverted data remains
  ELSE MakeDatetime(GroupInt(x.groups[1]), GroupInt(x.groups[2]), GroupInt(x.groups[3]),
                    GroupInt(x.groups[4]), GroupInt(x.groups[5]), GroupInt(x.groups[6]),
                    ToInt(PadMicro(x.groups[7])))

ConvertMatches(m, n) ==
  IF m = {} THEN ValueError                               \* does not match format
  ELSE ConvertMatch(CHOOSE y \in m : TRUE, n)

\* datetime.strptime(ts, "%Y-%m-%dT%H:%M:%S.%fZ"): the instant, or ValueError.
strptime(s) == ConvertMatches(RegexMatch(s), Len(s))

\* The timestamp 2023-02-02T03:04:05.123456Z in its fourteen pieces (seven fields
\* and seven separators), and for each piece the ways it is rewritten below.
CanonicalPieces ==
  << <<"2", "0", "2", "3">>,
     <<"-">>,
     <<"0", "2">>,
     <<"-">>,
     <<"0", "2">>,
     <<"T">>,
     <<"0", "3">>,
     <<":">>,
     <<"0", "4">>,
     <<":">>,
     <<"0", "5">>,
     <<".">>,
     <<"1", "2", "3", "4", "5", "6">>,
     <<"Z">> >>

PieceDeviations ==
  << {<<"0", "2", "3">>, <<"2", "0", "2", "3", "3">>, <<"0", "0", "0", "0">>, <<"2", "0", "2", "4">>, <<"2", "o", "2", "3">>},
     {<<>>, <<"/">>},
     {<<"2">>, <<"1", "3">>, <<"0", "0">>, <<"0", "1">>, <<"0", "0", "2">>},
     {},
     {<<"2">>, <<" ", "2">>, <<"2", "9">>, <<"3", "0">>, <<"3", "1">>, <<"0", "0">>, <<"3", "2">>},
     {<<"t">>, <<" ">>, <<>>},
     {<<"3">>, <<"2", "3">>, <<"2", "4">>},
     {},
     {<<"4">>, <<"5", "9">>, <<"6", "0">>},
     {<<".">>},
     {<<"5">>, <<"5", "9">>, <<"6", "0">>, <<"6", "1">>},
     {<<>>, <<",">>},
     {<<"1">>, <<"1", "2", "3", "4", "5">>, <<"1", "2", "3", "4", "5", "6", "7">>, <<>>, <<"1", "2", "3", "4", "5", "x">>},
     {<<"z">>, <<>>, <<"Z", "x">>, <<"+", "0", "0", ":", "0", "0">>} >>

TsGood == Concat(CanonicalPieces)
TsBad == <<"n", "o", "t", "-", "a", "-", "d", "a", "t", "e">>

\* strptime of the two timestamps the documents below carry, evaluated once.
StrptimeOfKnown == [s \in {TsGood, TsBad} |-> strptime(s)]

strptime_cached(s) == IF s \in DOMAIN StrptimeOfKnown THEN StrptimeOfKnown[s] ELSE strptime(s)

TsWarning(raw) ==
  [level |-> "warning", what |-> "timestamp", arg |-> [ts |-> raw],
   fmt |-> "Could not parse timestamp {ts}, using None instead"]

TsDebug(raw) ==
  [level |-> "debug", what |-> "timestamp", arg |-> [exc_info |-> "ValueError"], fmt |-> ""]

\* The try statement of parse_ts around the outcome r of strptime:
\* "except ValueError" catches a ValueError only.
TryStrptime(r, raw) ==
  IF r.err = "" THEN [value |-> r.value, logged |-> <<>>, raises |-> ""]
  ELSE IF r.err = "ValueError"
  THEN [value |-> None, logged |-> <<TsWarning(raw), TsDebug(raw)>>, raises |-> ""]
  ELSE [value |-> None, logged |-> <<>>, raises |-> r.err]

\* parse_ts(ts): the value returned, the records logged, and the exception that
\* leaves it ("" for none).
parse_ts(ts) ==
  IF ts = None THEN [value |-> None, logged |-> <<>>, raises |-> ""]
  ELSE TryStrptime(strptime_cached(ts[1]), ts[1])

(***************************************************************************)
(* The XML document.  The content of a file is the sequence of the         *)
(* parser's events: a document type declaration, start tags, character     *)
(* data, end tags.  ElementTree.fromstring builds the tree from them.  A   *)
(* tree is the sequence of its elements in document order; an element      *)
(* records its tag, its attributes (None for one that is absent), its      *)
(* text (None when no character data follows the start tag) and its        *)
(* parent (0 for the root).                                                *)
(***************************************************************************)
ns == [bookmark |-> "http://www.freedesktop.org/standards/desktop-bookmarks",
       mime     |-> "http://www.freedesktop.org/standards/shared-mime-info"]

\* ElementTree's name of the element prefix:local under the namespace map ns.
QName(prefix, local) == "{" \o ns[prefix] \o "}" \o local

NoAttrib == [href |-> None, added |-> None, modified |-> None, visited |-> None,
             type |-> None, name |-> None, exec |-> None, count |-> None]

StartTag(tag, attrib) == [k |-> "start", tag |-> tag, attrib |-> attrib]
EndTag(tag) == [k |-> "end", tag |-> tag]
CharData(t) == [k |-> "text", text |-> t]
Doctype == [k |-> "doctype"]

\* One event applied to the parser's state p: the elements so far, the stack of
\* the open ones and the exception raised ("" for none).
ParseEvent(p, e) ==
  IF p.err # "" THEN p
  ELSE IF e.k = "doctype"
  THEN [p EXCEPT !.err = IF p.nodes = <<>> THEN "DTDForbidden" ELSE "ParseError"]
  ELSE IF e.k = "start"
  THEN IF p.nodes # <<>> /\ p.stack = <<>>
       THEN [p EXCEPT !.err = "ParseError"]          \* junk after document element
       ELSE [p EXCEPT
               !.nodes = Append(@, [tag |-> e.tag, attrib |-> e.attrib, text |-> None,
                                    parent |-> IF p.stack = <<>> THEN 0
                                               ELSE p.stack[Len(p.stack)]]),
               !.stack = Append(@, Len(p.nodes) + 1)]
  ELSE IF e.k = "text"
  THEN IF p.stack = <<>>
       THEN [p EXCEPT !.err = "ParseError"]          \* text outside the root
       ELSE LET top == p.stack[Len(p.stack)] IN
            IF top = Len(p.nodes) /\ p.nodes[top].text = None
            THEN [p EXCEPT !.nodes[top].text = Some(e.text)]
            ELSE p                                   \* a tail: no one reads it
  ELSE IF p.stack = <<>> \/ p.nodes[p.stack[Len(p.stack)]].tag # e.tag
       THEN [p EXCEPT !.err = "ParseError"]          \* mismatched tag
       ELSE [p EXCEPT !.stack = SubSeq(@, 1, Len(@) - 1)]

RECURSIVE ParseEvents(_, _, _)
ParseEvents(p, content, i) ==
  IF i > Len(content) THEN p
  ELSE ParseEvents(ParseEvent(p, content[i]), content, i + 1)

\* ElementTree.fromstring(content, forbid_dtd=True): the tree, or the exception.
fromstring(content) ==
  LET p == ParseEvents([nodes |-> <<>>, stack |-> <<>>, err |-> ""], content, 1) IN
  IF p.err # "" THEN [err |-> p.err, root |-> <<>>]
  ELSE IF p.nodes = <<>> \/ p.stack # <<>>
  THEN [err |-> "ParseError", root |-> <<>>]         \* no element found / unclosed
  ELSE [err |-> "", root |-> p.nodes]

\* The children of element i, in document order.
Children(tree, i) == SelectSeq([j \in 1..Len(tree) |-> j], LAMBDA j : tree[j].parent = i)

\* Element.iter(tag) from element i: i itself and its descendants, in
\* document order, that carry the tag.
RECURSIVE iter(_, _, _)
iter(tree, i, tag) ==
  LET kids == Children(tree, i) IN
  (IF tree[i].tag = tag THEN <<i>> ELSE <<>>)
    \o Concat([k \in 1..Len(kids) |-> iter(tree, kids[k], tag)])

\* Element.findall("./t1/t2/..."): from the elements ctx, one child step per tag.
RECURSIVE findall(_, _, _)
findall(tree, ctx, path) ==
  IF path = <<>> THEN ctx
  ELSE findall(tree,
               Concat([k \in 1..Len(ctx) |->
                         SelectSeq(Children(tree, ctx[k]),
                                   LAMBDA j : tree[j].tag = Head(path))]),
               Tail(path))

MimeTypePath == <<"info", "metadata", QName("mime", "mime-type")>>
GroupPath == <<"info", "metadata", QName("bookmark", "groups"), QName("bookmark", "group")>>
PrivatePath == <<"info", "metadata", QName("bookmark", "private")>>
IconPath == <<"info", "metadata", QName("bookmark", "icon")>>
ApplicationPath ==
  <<"info", "metadata", QName("bookmark", "applications"), QName("bookmark", "application")>>

(***************************************************************************)
(* parse_recently_used_xbel, one bookmark.                                 *)
(***************************************************************************)
\* An extractor that takes the type of the first mime-type element, however
\* many there are.
MimeTypeOf_first(tree, bk) ==
  LET mimetypes == findall(tree, <<bk>>, MimeTypePath) IN
  IF mimetypes # <<>> THEN tree[mimetypes[1]].attrib.type ELSE None

\* mimetypes[0].get("type") if there is exactly one mime-type element.
MimeTypeOf(tree, bk) ==
  LET mimetypes == findall(tree, <<bk>>, MimeTypePath) IN
  IF mimetypes # <<>> /\ Len(mimetypes) = 1 THEN tree[mimetypes[1]].attrib.type ELSE None

\* str.join: the items separated by sep.
RECURSIVE join(_, _)
join(sep, items) ==
  IF items = <<>> THEN ""
  ELSE IF Len(items) = 1 THEN items[1]
  ELSE items[1] \o sep \o join(sep, Tail(items))

\* ", ".join(group.text for group in groups): str.join raises TypeError on an
\* item that is None.
GroupListOf(tree, bk) ==
  LET groups == findall(tree, <<bk>>, GroupPath)
      texts  == [k \in 1..Len(groups) |-> tree[groups[k]].text]
  IN  IF \E k \in 1..Len(texts) : texts[k] = None
      THEN [err |-> "TypeError", value |-> ""]
      ELSE [err |-> "", value |-> join(", ", [k \in 1..Len(texts) |-> texts[k][1]])]

PrivateOf(tree, bk) == Len(findall(tree, <<bk>>, PrivatePath)) > 0

\* An extractor that has parsed the timestamps of the bookmark's applications
\* by the time it yields the primary record.
PrimaryTimestamps_eager(tree, bk) ==
  LET apps == findall(tree, <<bk>>, ApplicationPath) IN
  [ts       |-> parse_ts(tree[bk].attrib.visited),
   added    |-> parse_ts(tree[bk].attrib.added),
   modified |-> parse_ts(tree[bk].attrib.modified),
   visited  |-> [value  |-> parse_ts(tree[bk].attrib.visited).value,
                 logged |-> parse_ts(tree[bk].attrib.visited).logged
                            \o Concat([k \in 1..Len(apps) |->
                                         parse_ts(tree[apps[k]].attrib.modified).logged]),
                 raises |-> ""]]

\* The four parse_ts calls of the RecentlyUsedRecord constructor, in the order
\* Python evaluates the keyword arguments: ts, added, modified, visited.
PrimaryTimestamps(tree, bk) ==
  [ts       |-> parse_ts(tree[bk].attrib.visited),
   added    |-> parse_ts(tree[bk].attrib.added),
   modified |-> parse_ts(tree[bk].attrib.modified),
   visited  |-> parse_ts(tree[bk].attrib.visited)]

TimestampsLogged(t) == t.ts.logged \o t.added.logged \o t.modified.logged \o t.visited.logged

\* RecentlyUsedRecord(...), t being the outcomes of its four parse_ts calls.
MakeRecentlyUsedRecord(t, username, xbel_file, href, mimetype, group_list, private) ==
  [rtype    |-> "unix/linux/recently_used",
   ts       |-> t.ts.value,
   user     |-> username,
   source   |-> xbel_file,
   href     |-> href,
   added    |-> t.added.value,
   modified |-> t.modified.value,
   visited  |-> t.visited.value,
   mimetype |-> mimetype,
   groups   |-> group_list,
   private  |-> private]

RecentlyUsedIconRecord(tree, icon) ==
  [rtype |-> "unix/linux/recently_used_icon",
   type  |-> tree[icon].attrib.type,
   href  |-> tree[icon].attrib.href,
   name  |-> tree[icon].attrib.name]

\* RecentlyUsedApplicationRecord(...), t being parse_ts(app.get("modified")).
MakeRecentlyUsedApplicationRecord(t, attrib) ==
  [rtype |-> "unix/linux/recently_used_application",
   ts    |-> t.value,
   name  |-> attrib.name,
   exec  |-> attrib.exec,
   count |-> attrib.count]

\* A GroupedRecord that holds its records in the opposite order.
GroupedRecord_swapped(name, records) == [rtype |-> name, records |-> <<records[2], records[1]>>]

\* GroupedRecord(name, [cur, record]).
GroupedRecord(name, records) == [rtype |-> name, records |-> records]

FileWarning(xbel_file) ==
  [level |-> "warning", what |-> "file", arg |-> [xbel_file |-> xbel_file],
   fmt |-> "Could not parse {xbel_file}, skipping"]

FileDebug(xbel_file) ==
  [level |-> "debug", what |-> "file", arg |-> [exc_info |-> "ParseError"], fmt |-> ""]

(***************************************************************************)
(* The generators.  recently_used runs one parse_recently_used_xbel per    *)
(* file; the caller's next() runs them up to the next yield.  status is    *)
(*   created    the generator object exists, its body has not started      *)
(*   running    a next() call is in progress                               *)
(*   suspended  the generator waits at a yield, the caller has the record  *)
(*   exhausted  next() raised StopIteration                                *)
(*   raised     next() raised the exception exc                            *)
(*   closed     the caller stopped pulling and the generator was finalised *)
(***************************************************************************)
CurrentFile == users_files[fileIdx]

\* The caller asks for the next record.
Request ==
  /\ status \in {"created", "suspended"}
  /\ status' = "running"
  /\ requests' = requests + 1
  /\ UNCHANGED <<users_files, fileIdx, pc, et, bks, cur, b, pending, out, log, fh,
                 exc, emitted, ts_pc, ts_in, ts_out>>

\* recently_used takes the next file; parse_recently_used_xbel opens and reads
\* it, and fromstring raises ParseError: two log records, and the generator of
\* this file returns (the with statement closes the handle).
ParseFails ==
  /\ status = "running" /\ pc = "loop" /\ fileIdx < Len(users_files)
  /\ fromstring(users_files[fileIdx + 1].content).err = "ParseError"
  /\ fileIdx' = fileIdx + 1
  /\ log' = log \o <<FileWarning(users_files[fileIdx + 1].path),
                     FileDebug(users_files[fileIdx + 1].path)>>
  /\ UNCHANGED <<users_files, status, pc, et, bks, cur, b, pending, out, fh, exc,
                 emitted, requests, ts_pc, ts_in, ts_out>>

\* ... and fromstring raises an exception that is no ParseError (defusedxml's
\* DTDForbidden is a ValueError): it leaves both generators, closing the handle.
ParseForbidden ==
  /\ status = "running" /\ pc = "loop" /\ fileIdx < Len(users_files)
  /\ fromstring(users_files[fileIdx + 1].content).err \notin {"", "ParseError"}
  /\ fileIdx' = fileIdx + 1
  /\ exc' = fromstring(users_files[fileIdx + 1].content).err
  /\ status' = "raised"
  /\ UNCHANGED <<users_files, pc, et, bks, cur, b, pending, out, log, fh, emitted,
                 requests, ts_pc, ts_in, ts_out>>

\* ... and fromstring returns the tree: the loop over et.iter("bookmark")
\* starts, inside the with statement, so the handle stays open.
ParseOk ==
  /\ status = "running" /\ pc = "loop" /\ fileIdx < Len(users_files)
  /\ fromstring(users_files[fileIdx + 1].content).err = ""
  /\ fileIdx' = fileIdx + 1
  /\ et' = fromstring(users_files[fileIdx + 1].content).root
  /\ bks' = iter(et', 1, "bookmark")
  /\ fh' = fh \cup {fileIdx + 1}
  /\ pc' = "bookmarks"
  /\ cur' = None /\ b' = 0 /\ pending' = <<>>
  /\ UNCHANGED <<users_files, status, out, log, exc, emitted, requests, ts_pc, ts_in, ts_out>>

\* The next bookmark: mimetype, group_list, private, the record, yield cur.
YieldPrimary ==
  /\ status = "running" /\ pc = "bookmarks" /\ bks # <<>>
  /\ GroupListOf(et, Head(bks)).err = ""
  /\ b' = Head(bks)
  /\ bks' = Tail(bks)
  /\ LET t == PrimaryTimestamps(et, Head(bks)) IN
       /\ cur' = Some(MakeRecentlyUsedRecord(t, CurrentFile.user, CurrentFile.path,
                                             et[Head(bks)].attrib.href,
                                             MimeTypeOf(et, Head(bks)),
                                             GroupListOf(et, Head(bks)).value,
                                             PrivateOf(et, Head(bks))))
       /\ log' = log \o TimestampsLogged(t)
  /\ out' = Append(out, cur'[1])
  /\ emitted' = Append(emitted, [file |-> fileIdx, node |-> Head(bks)])
  /\ status' = "suspended"
  /\ pc' = "find_icons"
  /\ UNCHANGED <<users_files, fileIdx, et, pending, fh, exc, requests, ts_pc, ts_in, ts_out>>

\* The next bookmark has a group element without text: join raises TypeError,
\* which leaves both generators; the with statement closes the handle.
JoinRaises ==
  /\ status = "running" /\ pc = "bookmarks" /\ bks # <<>>
  /\ GroupListOf(et, Head(bks)).err # ""
  /\ b' = Head(bks)
  /\ bks' = Tail(bks)
  /\ exc' = GroupListOf(et, Head(bks)).err
  /\ status' = "raised"
  /\ fh' = fh \ {fileIdx}
  /\ UNCHANGED <<users_files, fileIdx, pc, et, cur, pending, out, log, emitted,
                 requests, ts_pc, ts_in, ts_out>>

\* Resumed after yield cur: icons = b.findall(...).
FindIcons ==
  /\ status = "running" /\ pc = "find_icons"
  /\ pending' = findall(et, <<b>>, IconPath)
  /\ pc' = "icons"
  /\ UNCHANGED <<users_files, status, fileIdx, et, bks, cur, b, out, log, fh, exc,
                 emitted, requests, ts_pc, ts_in, ts_out>>

\* for icon in icons: yield GroupedRecord(..., [cur, iconrecord]).
YieldIcon ==
  /\ status = "running" /\ pc = "icons" /\ pending # <<>>
  /\ out' = Append(out, GroupedRecord("unix/linux/recently_used/grouped",
                                      <<cur[1], RecentlyUsedIconRecord(et, Head(pending))>>))
  /\ emitted' = Append(emitted, [file |-> fileIdx, node |-> Head(pending)])
  /\ pending' = Tail(pending)
  /\ status' = "suspended"
  /\ UNCHANGED <<users_files, fileIdx, pc, et, bks, cur, b, log, fh, exc, requests,
                 ts_pc, ts_in, ts_out>>

\* The icons are done: apps = b.findall(...).
FindApps ==
  /\ status = "running" /\ pc = "icons" /\ pending = <<>>
  /\ pending' = findall(et, <<b>>, ApplicationPath)
  /\ pc' = "apps"
  /\ UNCHANGED <<users_files, status, fileIdx, et, bks, cur, b, out, log, fh, exc,
                 emitted, requests, ts_pc, ts_in, ts_out>>

\* for app in apps: yield GroupedRecord(..., [cur, apprecord]).
YieldApp ==
  /\ status = "running" /\ pc = "apps" /\ pending # <<>>
  /\ LET t == parse_ts(et[Head(pending)].attrib.modified) IN
       /\ log' = log \o t.logged
       /\ out' = Append(out, GroupedRecord("unix/linux/recently_used/grouped",
                         <<cur[1], MakeRecentlyUsedApplicationRecord(t, et[Head(pending)].attrib)>>))
  /\ emitted' = Append(emitted, [file |-> fileIdx, node |-> Head(pending)])
  /\ pending' = Tail(pending)
  /\ status' = "suspended"
  /\ UNCHANGED <<users_files, fileIdx, pc, et, bks, cur, b, fh, exc, requests,
                 ts_pc, ts_in, ts_out>>

\* The applications are done: back to "for b in et.iter(...)".
BookmarkDone ==
  /\ status = "running" /\ pc = "apps" /\ pending = <<>>
  /\ pc' = "bookmarks"
  /\ UNCHANGED <<users_files, status, fileIdx, et, bks, cur, b, pending, out, log, fh,
                 exc, emitted, requests, ts_pc, ts_in, ts_out>>

\* No bookmark is left: the generator of this file returns, the with statement
\* closes the handle, and recently_used goes on to the next file.
FileDone ==
  /\ status = "running" /\ pc = "bookmarks" /\ bks = <<>>
  /\ fh' = fh \ {fileIdx}
  /\ pc' = "loop"
  /\ et' = <<>> /\ cur' = None /\ b' = 0
  /\ UNCHANGED <<users_files, status, fileIdx, bks, pending, out, log, exc, emitted,
                 requests, ts_pc, ts_in, ts_out>>

\* No file is left: recently_used returns, next() raises StopIteration.
Exhausted ==
  /\ status = "running" /\ pc = "loop" /\ fileIdx = Len(users_files)
  /\ status' = "exhausted"
  /\ UNCHANGED <<users_files, fileIdx, pc, et, bks, cur, b, pending, out, log, fh,
                 exc, emitted, requests, ts_pc, ts_in, ts_out>>

\* The caller stops pulling, and the suspended generator is finalised
\* (generator.close(), at the latest when it is collected): GeneratorExit is
\* raised at the yield and the with statement closes the handle.
Close ==
  /\ status = "suspended"
  /\ status' = "closed"
  /\ fh' = fh \ {fileIdx}
  /\ UNCHANGED <<users_files, fileIdx, pc, et, bks, cur, b, pending, out, log, exc,
                 emitted, requests, ts_pc, ts_in, ts_out>>

Next ==
  \/ Request
  \/ ParseFails
  \/ ParseForbidden
  \/ ParseOk
  \/ YieldPrimary
  \/ JoinRaises
  \/ FindIcons
  \/ YieldIcon
  \/ FindApps
  \/ YieldApp
  \/ BookmarkDone
  \/ FileDone
  \/ Exhausted
  \/ Close

(***************************************************************************)
(* parse_ts called on its own.  The arguments: None, two strings that are  *)
(* no timestamp, and every string got from the canonical timestamp         *)
(* 2023-02-02T03:04:05.123456Z by rewriting at most MaxDeviations of its   *)
(* fourteen pieces (seven fields, seven separators).                       *)
(***************************************************************************)
MaxDeviations == 2

RECURSIVE Deviated(_, _)
Deviated(k, n) ==
  IF k > Len(CanonicalPieces) THEN {<<>>}
  ELSE {CanonicalPieces[k] \o r : r \in Deviated(k + 1, n)}
       \cup (IF n = 0 THEN {}
             ELSE {a \o r : a \in PieceDeviations[k], r \in Deviated(k + 1, n - 1)})

TsArguments == {None, Some(<<>>), Some(TsBad)} \cup {Some(s) : s \in Deviated(1, MaxDeviations)}

NoFiles == <<>>

InitTs ==
  /\ users_files = NoFiles /\ status = "unused" /\ fileIdx = 0 /\ pc = "unused"
  /\ et = <<>> /\ bks = <<>> /\ cur = None /\ b = 0 /\ pending = <<>>
  /\ out = <<>> /\ log = <<>> /\ fh = {} /\ exc = "" /\ emitted = <<>> /\ requests = 0
  /\ ts_pc = "call" /\ ts_in \in TsArguments /\ ts_out = [value |-> None, logged |-> <<>>, raises |-> ""]

\* A caller evaluates parse_ts(ts_in).
CallParseTs ==
  /\ ts_pc = "call"
  /\ ts_out' = parse_ts(ts_in)
  /\ log' = log \o parse_ts(ts_in).logged
  /\ ts_pc' = "done"
  /\ UNCHANGED <<users_files, status, fileIdx, pc, et, bks, cur, b, pending, out, fh,
                 exc, emitted, requests, ts_in>>

NextTs == CallParseTs

SpecTs == InitTs /\ [][NextTs]_vars

(***************************************************************************)
(* The inputs.  users_files is described by a sequence of at most          *)
(* MaxTokens tokens read from left to right.  The first file is there from *)
(* the start and "file" starts the next one; a file is a document with a   *)
(* first bookmark element under its root.  "bookmark" adds a bookmark      *)
(* element under the root, "nested" one inside the previous bookmark.      *)
(* "dtd" puts a document type declaration before the root of the file and  *)
(* "truncate" cuts the file before the end tag of its root.  Every other   *)
(* token adds to the last bookmark: a timestamp attribute that is          *)
(* unparseable or absent (the three are TsGood otherwise), or one element  *)
(* of its info/metadata.                                                   *)
(***************************************************************************)
MaxTokens == 3

Tok(t, s, ts) == [t |-> t, s |-> s, ts |-> ts]

Users == <<"alice", "bob", "carol", "dave", "erin", "frank", "grace">>
Paths == <<"/home/alice/.local/share/recently-used.xbel",
           "/home/bob/.local/share/recently-used.xbel",
           "/home/carol/.local/share/recently-used.xbel",
           "/home/dave/.local/share/recently-used.xbel",
           "/home/erin/.local/share/recently-used.xbel",
           "/home/frank/.local/share/recently-used.xbel",
           "/home/grace/.local/share/recently-used.xbel">>
Hrefs == <<"file:///1", "file:///2", "file:///3", "file:///4", "file:///5",
           "file:///6", "file:///7">>

NewBookmark(nested) ==
  [nested |-> nested, visited |-> Some(TsGood), added |-> Some(TsGood),
   modified |-> Some(TsGood), kids |-> <<>>]

NewFile == [dtd |-> FALSE, truncated |-> FALSE, bookmarks |-> <<NewBookmark(FALSE)>>]

\* The files described by the tokens after the first i, given those of the first i.
RECURSIVE Describe(_, _, _)
Describe(tokens, i, files) ==
  IF i > Len(tokens) THEN files
  ELSE LET tk == tokens[i]
           f  == Len(files)
           n  == Len(files[f].bookmarks)
       IN  Describe(tokens, i + 1,
             IF tk.t = "file" THEN Append(files, NewFile)
             ELSE IF tk.t = "dtd" THEN [files EXCEPT ![f].dtd = TRUE]
             ELSE IF tk.t = "truncate" THEN [files EXCEPT ![f].truncated = TRUE]
             ELSE IF tk.t \in {"bookmark", "nested"}
             THEN [files EXCEPT ![f].bookmarks = Append(@, NewBookmark(tk.t = "nested"))]
             ELSE IF tk.t \in {"visited", "added", "modified"}
             THEN IF tk.t = "visited" THEN [files EXCEPT ![f].bookmarks[n].visited = tk.ts]
                  ELSE IF tk.t = "added" THEN [files EXCEPT ![f].bookmarks[n].added = tk.ts]
                  ELSE [files EXCEPT ![f].bookmarks[n].modified = tk.ts]
             ELSE [files EXCEPT ![f].bookmarks[n].kids = Append(@, tk)])

Leaf(tag, attrib) == <<StartTag(tag, attrib), EndTag(tag)>>

Kind(kids, t) == SelectSeq(kids, LAMBDA tk : tk.t = t)

Wrapped(tag, events) ==
  IF events = <<>> THEN <<>> ELSE <<StartTag(tag, NoAttrib)>> \o events \o <<EndTag(tag)>>

\* <info><metadata> mime-types, applications, groups, privates, icons </metadata></info>
RenderInfo(kids) ==
  LET mimes == Kind(kids, "mime")
      apps  == Kind(kids, "app")
      grps  == Kind(kids, "group")
      privs == Kind(kids, "private")
      icons == Kind(kids, "icon")
  IN  <<StartTag("info", NoAttrib), StartTag("metadata", NoAttrib)>>
      \o Concat([k \in 1..Len(mimes) |->
                   Leaf(QName("mime", "mime-type"),
                        [NoAttrib EXCEPT !.type = IF mimes[k].s = "" THEN None
                                                  ELSE Some(mimes[k].s)])])
      \o Wrapped(QName("bookmark", "applications"),
                 Concat([k \in 1..Len(apps) |->
                           Leaf(QName("bookmark", "application"),
                                [NoAttrib EXCEPT !.name = Some(apps[k].s),
                                                 !.exec = Some(apps[k].s),
                                                 !.count = Some("1"),
                                                 !.modified = apps[k].ts])]))
      \o Wrapped(QName("bookmark", "groups"),
                 Concat([k \in 1..Len(grps) |->
                           <<StartTag(QName("bookmark", "group"), NoAttrib)>>
                           \o (IF grps[k].s = "" THEN <<>> ELSE <<CharData(grps[k].s)>>)
                           \o <<EndTag(QName("bookmark", "group"))>>]))
      \o Concat([k \in 1..Len(privs) |-> Leaf(QName("bookmark", "private"), NoAttrib)])
      \o Concat([k \in 1..Len(icons) |->
                   Leaf(QName("bookmark", "icon"),
                        [NoAttrib EXCEPT !.href = Some(icons[k].s),
                                         !.name = Some(icons[k].s),
                                         !.type = Some("image/png")])])
      \o <<EndTag("metadata"), EndTag("info")>>

RECURSIVE EndTags(_, _)
EndTags(tag, n) == IF n = 0 THEN <<>> ELSE <<EndTag(tag)>> \o EndTags(tag, n - 1)

\* The bookmark elements from the k-th on, d bookmark elements being open.
RECURSIVE RenderBookmarks(_, _, _)
RenderBookmarks(bms, k, d) ==
  IF k > Len(bms) THEN EndTags("bookmark", d)
  ELSE LET open == <<StartTag("bookmark",
                              [NoAttrib EXCEPT !.href = Some(Hrefs[k]),
                                               !.visited = bms[k].visited,
                                               !.added = bms[k].added,
                                               !.modified = bms[k].modified])>>
                   \o RenderInfo(bms[k].kids)
       IN  IF bms[k].nested
           THEN open \o RenderBookmarks(bms, k + 1, d + 1)
           ELSE EndTags("bookmark", d) \o open \o RenderBookmarks(bms, k + 1, 1)

Truncated(doc, cut) == IF cut THEN SubSeq(doc, 1, Len(doc) - 1) ELSE doc

RenderFile(f) ==
  (IF f.dtd THEN <<Doctype>> ELSE <<>>)
  \o Truncated(<<StartTag("xbel", NoAttrib)>>
               \o RenderBookmarks(f.bookmarks, 1, 0)
               \o <<EndTag("xbel")>>, f.truncated)

UsersFiles(tokens) ==
  LET files == Describe(tokens, 1, <<NewFile>>) IN
  [k \in 1..Len(files) |->
     [user |-> Users[k], path |-> Paths[k], content |-> RenderFile(files[k])]]

TokenSeqs(alphabet) == UNION {[1..n -> alphabet] : n \in 0..MaxTokens}

\* Files, bookmarks and the elements of their metadata.
StructureTokens ==
  { Tok("file", "", None), Tok("truncate", "", None), Tok("dtd", "", None),
    Tok("bookmark", "", None), Tok("nested", "", None),
    Tok("mime", "text/html", None), Tok("mime", "", None),
    Tok("group", "a", None), Tok("group", "b", None), Tok("group", "", None),
    Tok("private", "", None),
    Tok("icon", "a.png", None), Tok("icon", "b.png", None),
    Tok("app", "app1", Some(TsGood)), Tok("app", "app2", Some(TsBad)) }

InitOn(alphabet) ==
  /\ users_files \in {UsersFiles(t) : t \in TokenSeqs(alphabet)}
  /\ status = "created" /\ fileIdx = 0 /\ pc = "loop"
  /\ et = <<>> /\ bks = <<>> /\ cur = None /\ b = 0 /\ pending = <<>>
  /\ out = <<>> /\ log = <<>> /\ fh = {} /\ exc = "" /\ emitted = <<>> /\ requests = 0
  /\ ts_pc = "unused" /\ ts_in = None /\ ts_out = [value |-> None, logged |-> <<>>, raises |-> ""]

\* Files, bookmarks, their timestamp attributes and their applications.
TimestampTokens ==
  { Tok("file", "", None), Tok("bookmark", "", None), Tok("nested", "", None),
    Tok("visited", "", Some(TsBad)), Tok("visited", "", None),
    Tok("added", "", Some(TsBad)), Tok("added", "", None),
    Tok("modified", "", Some(TsBad)), Tok("modified", "", None),
    Tok("app", "app1", Some(TsGood)), Tok("app", "app2", Some(TsBad)),
    Tok("app", "app3", None) }

Init == InitOn(StructureTokens)

InitAttributes == InitOn(TimestampTokens)

Spec == Init /\ [][Next]_vars

\* The actions that Next can take when every file is a well-formed document
\* without a document type declaration and every group element has text.
NextAttributes ==
  \/ Request
  \/ ParseOk
  \/ YieldPrimary
  \/ FindIcons
  \/ FindApps
  \/ YieldApp
  \/ BookmarkDone
  \/ FileDone
  \/ Exhausted
  \/ Close

SpecAttributes == InitAttributes /\ [][NextAttributes]_vars

(***************************************************************************)
(* What the claims speak of, stated on the document and not through the    *)
(* operators above: document order is the order of the tree's elements,    *)
(* and an element belongs to a bookmark when the tags of its ancestors     *)
(* lead up to it.                                                          *)
(***************************************************************************)
PrimaryType == "unix/linux/recently_used"
IconType == "unix/linux/recently_used_icon"
ApplicationType == "unix/linux/recently_used_application"

IsPrimary(r) == r.rtype = PrimaryType
IsIconPair(r) == ~IsPrimary(r) /\ r.records[2].rtype = IconType
IsApplicationPair(r) == ~IsPrimary(r) /\ r.records[2].rtype = ApplicationType

Indices(n) == [j \in 1..n |-> j]

\* The element reached from j by climbing through the tags of path, last tag
\* first; 0 when the tags do not fit.
RECURSIVE Up(_, _, _)
Up(tree, j, path) ==
  IF j = 0 THEN 0
  ELSE IF path = <<>> THEN j
  ELSE IF tree[j].tag = path[Len(path)]
  THEN Up(tree, tree[j].parent, SubSeq(path, 1, Len(path) - 1))
  ELSE 0

\* The elements that sit under bookmark bk at the end of path, in document order.
ElementsUnder(tree, bk, path) ==
  SelectSeq(Indices(Len(tree)), LAMBDA j : Up(tree, j, path) = bk)

\* The elements named bookmark, in document order.
BookmarkElements(tree) ==
  SelectSeq(Indices(Len(tree)), LAMBDA j : tree[j].tag = "bookmark")

\* The bookmark that owns an icon or application element.
Owner(tree, j) ==
  IF tree[j].tag = QName("bookmark", "icon") THEN Up(tree, j, IconPath)
  ELSE Up(tree, j, ApplicationPath)

WithoutDoctype(content) == SelectSeq(content, LAMBDA e : e.k # "doctype")

\* The content is well-formed XML: its tags nest, with or without a document
\* type declaration before them.
WellFormed(content) == fromstring(WithoutDoctype(content)).err = ""

TreeOf(k) == fromstring(WithoutDoctype(users_files[k].content)).root

\* File k has been iterated to its end: its generator returned or raised.
FileEnded(k) ==
  \/ k < fileIdx
  \/ k = fileIdx /\ (pc = "loop" \/ status \in {"exhausted", "raised"})

EmittedOf(k) == SelectSeq(Indices(Len(out)), LAMBDA i : emitted[i].file = k)

PrimariesOf(k) == SelectSeq(EmittedOf(k), LAMBDA i : IsPrimary(out[i]))

Nodes(is) == [n \in 1..Len(is) |-> emitted[is[n]].node]

\* The log records that building the record of element j writes.
ElementLog(tree, j) ==
  IF tree[j].tag = "bookmark"
  THEN parse_ts(tree[j].attrib.visited).logged \o parse_ts(tree[j].attrib.added).logged
       \o parse_ts(tree[j].attrib.modified).logged \o parse_ts(tree[j].attrib.visited).logged
  ELSE IF tree[j].tag = QName("bookmark", "application")
  THEN parse_ts(tree[j].attrib.modified).logged
  ELSE <<>>

EmittedLog(tree, is) == Concat([n \in 1..Len(is) |-> ElementLog(tree, emitted[is[n]].node)])

\* What file k has written to the log so far.
FileLog(k) ==
  IF fromstring(users_files[k].content).err = "ParseError"
  THEN <<FileWarning(users_files[k].path), FileDebug(users_files[k].path)>>
  ELSE IF fromstring(users_files[k].content).err # "" THEN <<>>
  ELSE EmittedLog(TreeOf(k), EmittedOf(k))

\* What the records received so far and the unparseable files account for.
ExpectedLog == Concat([k \in 1..fileIdx |-> FileLog(k)])

HasTextlessGroup(tree, bk) ==
  \E j \in 1..Len(tree) : Up(tree, j, GroupPath) = bk /\ tree[j].text = None

\* The last primary record before position i of out (0 if none).
LastPrimary(i) ==
  IF \E p \in 1..(i - 1) : IsPrimary(out[p])
  THEN CHOOSE p \in 1..(i - 1) : IsPrimary(out[p]) /\ \A q \in (p + 1)..(i - 1) : ~IsPrimary(out[q])
  ELSE 0

\* The record of out that was built from bookmark bk of the current file (0 if none).
PrimaryFor(bk) ==
  IF \E i \in 1..Len(out) : IsPrimary(out[i]) /\ emitted[i] = [file |-> fileIdx, node |-> bk]
  THEN CHOOSE i \in 1..Len(out) : IsPrimary(out[i]) /\ emitted[i] = [file |-> fileIdx, node |-> bk]
  ELSE 0

(***************************************************************************)
(* The claims.                                                             *)
(***************************************************************************)

\* C1: whatever the content of the files, iterating recently_used never lets an
\* exception reach the caller.
C1_NeverRaises == status # "raised"

\* C2: a well-formed document with N elements named bookmark has yielded, once
\* it is iterated to its end, exactly N primary records, one per bookmark
\* element and in the document order of those elements.
C2_OnePrimaryPerBookmark ==
  \A k \in 1..fileIdx :
    (FileEnded(k) /\ WellFormed(users_files[k].content)) =>
      Nodes(PrimariesOf(k)) = BookmarkElements(TreeOf(k))

\* C3: every grouped record is paired with the primary record most recently
\* emitted before it, which is the record of the bookmark that owns its icon or
\* application element; between two primary records the icon pairs come first,
\* then the application pairs, each kind in document order.
C3_GroupedFollowTheirPrimary ==
  \A i \in 1..Len(out) :
    ~IsPrimary(out[i]) =>
      /\ LastPrimary(i) # 0
      /\ out[i].records[1] = out[LastPrimary(i)]
      /\ emitted[i].file = emitted[LastPrimary(i)].file
      /\ (emitted[i].file = fileIdx /\ et # <<>>) =>
           Owner(et, emitted[i].node) = emitted[LastPrimary(i)].node
      /\ \A j \in (LastPrimary(i) + 1)..(i - 1) :
           /\ ~(IsApplicationPair(out[j]) /\ IsIconPair(out[i]))
           /\ (IsIconPair(out[j]) <=> IsIconPair(out[i])) => emitted[j].node < emitted[i].node

\* C3, witness: two bookmarks have each yielded their primary record and then a
\* grouped record.
C3_Witness ==
  \E i, j \in 1..Len(out) :
    /\ i + 1 < j /\ j < Len(out)
    /\ IsPrimary(out[i]) /\ ~IsPrimary(out[i + 1])
    /\ IsPrimary(out[j]) /\ ~IsPrimary(out[j + 1])
    /\ emitted[i].file = emitted[j].file

\* C4: a file that is not well-formed XML yields no record, writes one warning
\* naming it and raises nothing, so that recently_used goes on with the next
\* file; the records come in the order of users_files.
C4_MalformedFileConfined ==
  /\ \A k \in 1..fileIdx :
       ~WellFormed(users_files[k].content) =>
          /\ EmittedOf(k) = <<>>
          /\ Len(SelectSeq(log, LAMBDA l : l = FileWarning(users_files[k].path))) = 1
          /\ ~(k = fileIdx /\ status = "raised")
  /\ \A i, j \in 1..Len(emitted) : i < j => emitted[i].file <= emitted[j].file

\* The string is written YYYY-MM-DDTHH:MM:SS.ffffffZ: four, two and two digits,
\* two, two and two digits, six digits, and the separators as shown.
ExactPattern(s) ==
  /\ Len(s) = 27
  /\ \A k \in {1, 2, 3, 4, 6, 7, 9, 10, 12, 13, 15, 16, 18, 19, 21, 22, 23, 24, 25, 26} : IsDigit(s[k])
  /\ s[5] = "-" /\ s[8] = "-" /\ s[11] = "T" /\ s[14] = ":" /\ s[17] = ":"
  /\ s[20] = "." /\ s[27] = "Z"

\* The ways to cut a string into its fields: the year has four characters, the
\* month, day, hour, minute and second one or two, the fraction one to six.
FieldWidths == [m : {1, 2}, d : {1, 2}, H : {1, 2}, M : {1, 2}, S : {1, 2}, f : 1..6]

Field(s, from, width) == SubSeq(s, from, from + width - 1)

\* A number written with digits only, not all of them needed.
IsNumber(w) == w # <<>> /\ \A k \in 1..Len(w) : IsDigit(w[k])

\* The day may be written with a space in place of its first digit.
DayDigits(w) == IF Len(w) = 2 /\ w[1] = " " THEN <<w[2]>> ELSE w

DaysOf(y, m) ==
  IF m \in {1, 3, 5, 7, 8, 10, 12} THEN 31
  ELSE IF m # 2 THEN 30
  ELSE IF y % 400 = 0 \/ (y % 4 = 0 /\ y % 100 # 0) THEN 29 ELSE 28

\* The instants that s denotes when cut by the widths w: year-month-day, T or t,
\* hour:minute:second, a point, the fraction, Z or z; the date exists and the
\* time lies within 00:00:00 and 23:59:59.
InstantsCut(s, w) ==
  LET pd == 7 + w.m
      pH == pd + w.d + 1
      pM == pH + w.H + 1
      pS == pM + w.M + 1
      pf == pS + w.S + 1
      pz == pf + w.f
  IN  IF /\ Len(s) = pz
         /\ IsNumber(Field(s, 1, 4)) /\ s[5] = "-"
         /\ IsNumber(Field(s, 6, w.m)) /\ s[pd - 1] = "-"
         /\ IsNumber(DayDigits(Field(s, pd, w.d))) /\ s[pH - 1] \in {"T", "t"}
         /\ IsNumber(Field(s, pH, w.H)) /\ s[pM - 1] = ":"
         /\ IsNumber(Field(s, pM, w.M)) /\ s[pS - 1] = ":"
         /\ IsNumber(Field(s, pS, w.S)) /\ s[pf - 1] = "."
         /\ IsNumber(Field(s, pf, w.f)) /\ s[pz] \in {"Z", "z"}
      THEN LET yr == ToInt(Field(s, 1, 4))
               mo == ToInt(Field(s, 6, w.m))
               dy == ToInt(DayDigits(Field(s, pd, w.d)))
               hh == ToInt(Field(s, pH, w.H))
               mi == ToInt(Field(s, pM, w.M))
               ss == ToInt(Field(s, pS, w.S))
               us == ToInt(Field(s, pf, w.f) \o [k \in 1..(6 - w.f) |-> "0"])
           IN  IF /\ yr >= 1 /\ mo >= 1 /\ mo <= 12 /\ dy >= 1 /\ dy <= DaysOf(yr, mo)
                  /\ hh <= 23 /\ mi <= 59 /\ ss <= 59
               THEN {<<yr, mo, dy, hh, mi, ss, us>>}
               ELSE {}
      ELSE {}

LenientInstants(s) == UNION {InstantsCut(s, w) : w \in FieldWidths}

\* What parse_ts logs for a string it rejects.
Rejected(raw) == <<TsWarning(raw), TsDebug(raw)>>

\* C5: parse_ts returns an instant only for a string written exactly
\* YYYY-MM-DDTHH:MM:SS.ffffffZ; it never raises, and it logs the warning with the
\* raw string exactly when its argument is a string and the outcome is None.
C5_OnlyTheExactPattern ==
  ts_pc = "done" =>
    /\ ts_out.value # None => (ts_in # None /\ ExactPattern(ts_in[1]))
    /\ ts_out.raises = ""
    /\ ts_out.logged = IF ts_in # None /\ ts_out.value = None THEN Rejected(ts_in[1]) ELSE <<>>
    /\ log = ts_out.logged

\* C5, amended: parse_ts returns an instant exactly for the strings that denote
\* one when read leniently (fields of one or two characters, a fraction of one
\* to six digits, t and z in either case), and then that instant; it never
\* raises, and it logs the warning with the raw string, and the detail of the
\* failure after it, exactly when its argument is a string and the outcome is
\* None.
C5_TheLenientPattern ==
  ts_pc = "done" =>
    /\ ts_in = None => ts_out.value = None
    /\ ts_in # None =>
         /\ ts_out.value # None <=> LenientInstants(ts_in[1]) # {}
         /\ ts_out.value # None => ts_out.value[1] \in LenientInstants(ts_in[1])
    /\ ts_out.raises = ""
    /\ ts_out.logged = IF ts_in # None /\ ts_out.value = None THEN Rejected(ts_in[1]) ELSE <<>>
    /\ log = ts_out.logged

\* C5, witness: parse_ts has returned an instant for a string that is not
\* written in the exact pattern.
C5_Witness ==
  ts_pc = "done" /\ ts_in # None /\ ts_out.value # None /\ ~ExactPattern(ts_in[1])

\* C6: every bookmark element the extractor has come to has its primary record,
\* whose timestamp fields are each the normalisation of its own attribute.
C6_PrimaryWhateverTheTimestamps ==
  b # 0 =>
    /\ PrimaryFor(b) # 0
    /\ out[PrimaryFor(b)].added = parse_ts(et[b].attrib.added).value
    /\ out[PrimaryFor(b)].modified = parse_ts(et[b].attrib.modified).value
    /\ out[PrimaryFor(b)].visited = parse_ts(et[b].attrib.visited).value
    /\ out[PrimaryFor(b)].ts = parse_ts(et[b].attrib.visited).value

\* C7: the mimetype of a primary record is the type attribute of the one
\* mime-type element under the info/metadata of its bookmark, and None when
\* there are none or several; the mime-type elements make nothing raise (an
\* exception met at a bookmark comes from a group element without text) and
\* nothing is logged for them (the log holds what the timestamps and the
\* unparseable files account for).
C7_MimetypeOfExactlyOne ==
  /\ \A i \in 1..Len(out) :
       (IsPrimary(out[i]) /\ emitted[i].file = fileIdx /\ et # <<>>) =>
          out[i].mimetype =
            IF Len(ElementsUnder(et, emitted[i].node, MimeTypePath)) = 1
            THEN et[ElementsUnder(et, emitted[i].node, MimeTypePath)[1]].attrib.type
            ELSE None
  /\ (status = "raised" /\ et # <<>> /\ b # 0 /\ PrimaryFor(b) = 0) => HasTextlessGroup(et, b)
  /\ log = ExpectedLog

\* C7, witness: a bookmark with two mime-type elements has yielded its record.
C7_Witness ==
  \E i \in 1..Len(out) :
    /\ IsPrimary(out[i]) /\ emitted[i].file = fileIdx /\ et # <<>>
    /\ Len(ElementsUnder(et, emitted[i].node, MimeTypePath)) = 2
    /\ out[i].mimetype = None

\* The text of a group element, "" for one without text.
GroupText(tree, j) == IF tree[j].text = None THEN "" ELSE tree[j].text[1]

\* C8: every bookmark element the extractor has come to has its primary record,
\* whose groups field is the texts of the group elements of the bookmark, in
\* document order, joined with ", ".
C8_GroupsJoined ==
  b # 0 =>
    /\ PrimaryFor(b) # 0
    /\ out[PrimaryFor(b)].groups =
         join(", ", [n \in 1..Len(ElementsUnder(et, b, GroupPath)) |->
                       GroupText(et, ElementsUnder(et, b, GroupPath)[n])])

\* C9: before the first request nothing is read, parsed or logged; afterwards
\* every record built answers a request, and the log holds the diagnostics of
\* the elements whose records the caller has received and of no later element.
C9_NothingAheadOfTheCaller ==
  /\ status = "created" =>
       (fileIdx = 0 /\ et = <<>> /\ fh = {} /\ log = <<>> /\ out = <<>>)
  /\ Len(out) <= requests
  /\ status = "suspended" => Len(out) = requests
  /\ log = ExpectedLog

\* C9, witness: the caller holds the primary record of a bookmark and the
\* diagnostics of its application, whose timestamp is unparseable, are not
\* written yet.
C9_Witness ==
  /\ status = "suspended" /\ Len(out) = 1 /\ IsPrimary(out[1])
  /\ \E j \in 1..Len(et) :
       /\ Owner(et, j) = b
       /\ et[j].tag = QName("bookmark", "application")
       /\ parse_ts(et[j].attrib.modified).logged # <<>>
       /\ \A n \in 1..Len(log) : log[n] # TsWarning(et[j].attrib.modified[1])

\* C10: while the extractor is suspended at a yield no file handle is open.
C10_NoHandleWhileSuspended == status = "suspended" => fh = {}

====
